---- MODULE Spec2Model ----
(***************************************************************************)
(* Model of mofa/utils/xyz.py: conversions between XYZ geometries and      *)
(* SMILES strings on top of the RDKit toolkit.                             *)
(*                                                                         *)
(*   SpecLock  - threads calling smiles_to_xyz under _generate_lock        *)
(*   FairLock  - SpecLock with weak fairness on every step of a call       *)
(*   SpecXyz   - threads calling smiles_to_xyz and xyz_to_smiles           *)
(*   SpecOrder - the bond-order classification of one bond (lines 87-98)   *)
(*               over all table contents                                   *)
(*   SpecUnsat - unsaturated_xyz_to_mol on a whole molecule                *)
(*                                                                         *)
(* Toolkit calls are black boxes of the source; a molecule object is       *)
(* modelled by its identity, its origin and what the toolkit has done to   *)
(* it.  Lengths: atom coordinates are whole angstroms, distances whole     *)
(* picometers (the floor of the real distance; the reference thresholds    *)
(* are whole picometers, so "distance < threshold" is decided exactly).    *)
(***************************************************************************)
EXTENDS Integers, Sequences, FiniteSets, TLC

VARIABLES
    generate_lock,  \* _generate_lock: 0 when free, else the thread that acquired it
    pc,             \* per thread: position inside the function it is calling
    arg,            \* per thread: the argument of the call in progress
    mol,            \* per thread: local variable mol
    xyz,            \* per thread: local variable xyz of smiles_to_xyz
    trace,          \* per thread: toolkit calls made by the call, with the lock state seen
    result,         \* per thread: outcome of the last call
    calls,          \* per thread: number of calls started
    BONDS_2,        \* const.BONDS_2: element -> element -> double-bond length (pm)
    BONDS_3,        \* const.BONDS_3: element -> element -> triple-bond length (pm)
    MARGINS_EDM,    \* const.MARGINS_EDM
    upc,            \* position inside unsaturated_xyz_to_mol / the classification
    uxyz,           \* argument xyz of unsaturated_xyz_to_mol: sequence of atoms
    umol,           \* local variable mol of unsaturated_xyz_to_mol
    bonds,          \* mol.GetBonds(): sequence of [begin, end, type]
    positions,      \* local variable positions
    k,              \* number of bonds of mol.GetBonds() already visited
    type_1,         \* loop locals of the bond being classified
    type_2,
    distance,
    thr_bond2,      \* <<>> while unassigned, else <<value>>
    thr_bond3,
    bond_type,
    setCount,       \* per bond: number of SetBondType calls
    addHsOut,       \* the object Chem.AddHs returned at line 103
    returned        \* the object unsaturated_xyz_to_mol returned

lockVars  == <<generate_lock, pc, arg, mol, xyz, trace, result, calls>>
tableVars == <<BONDS_2, BONDS_3, MARGINS_EDM>>
loopVars  == <<type_1, type_2, distance, thr_bond2, thr_bond3, bond_type>>
unsatVars == <<upc, uxyz, umol, bonds, positions, k, setCount, addHsOut, returned>>
vars      == <<lockVars, tableVars, loopVars, unsatVars>>
notLock   == <<tableVars, loopVars, unsatVars>>

(***************************************************************************)
(* Bounds of the model.                                                    *)
(***************************************************************************)
NumThreads == 2
MaxCalls   == 2
MaxAtoms   == 3
MaxBonds   == 2

Threads == 1..NumThreads

None == [none |-> TRUE]

(***************************************************************************)
(* smiles_to_xyz                                                           *)
(***************************************************************************)
\* Inputs: a SMILES RDKit parses and embeds, one it cannot parse, and one it
\* parses but cannot embed.
SmilesInputs == {"CCO", "not-a-smiles", "unembeddable"}

MolFromSmiles(s) ==
    IF s = "not-a-smiles" THEN None
    ELSE [obj |-> 1, from |-> s, hs |-> FALSE, conf |-> <<>>, optimized |-> FALSE]

\* Chem.AddHs returns a new molecule; None is rejected with an exception.
AddHs(m) == [m EXCEPT !.obj = @ + 1, !.hs = TRUE]

\* AllChem.EmbedMolecule(mol, randomSeed=seed) adds a conformer in place, or
\* adds nothing when embedding fails.
EmbedMolecule(m, seed) ==
    IF m.from = "unembeddable" THEN m
    ELSE [m EXCEPT !.conf = <<[seed |-> seed, hs |-> m.hs]>>]

\* AllChem.MMFFOptimizeMolecule raises on a molecule without conformer.
MMFFOptimizeMolecule(m) == [m EXCEPT !.optimized = TRUE]

MolToXYZBlock(m) == [xyzOf |-> m]

Log(t, op) == Append(trace[t], [op |-> op, lock |-> generate_lock])

\* A call of smiles_to_xyz starts.
Call(t, s) ==
    /\ UNCHANGED notLock
    /\ pc[t] = "idle"
    /\ calls[t] < MaxCalls
    /\ calls' = [calls EXCEPT ![t] = @ + 1]
    /\ pc' = [pc EXCEPT ![t] = "acquire"]
    /\ arg' = [arg EXCEPT ![t] = s]
    /\ mol' = [mol EXCEPT ![t] = None]
    /\ xyz' = [xyz EXCEPT ![t] = None]
    /\ trace' = [trace EXCEPT ![t] = <<>>]
    /\ result' = [result EXCEPT ![t] = None]
    /\ UNCHANGED generate_lock

\* Variant of Acquire: enters the block without waiting for the lock.
AcquireNoWait(t) ==
    /\ UNCHANGED notLock
    /\ pc[t] = "acquire"
    /\ generate_lock' = t
    /\ pc' = [pc EXCEPT ![t] = "parse"]
    /\ UNCHANGED <<arg, mol, xyz, trace, result, calls>>

\* with _generate_lock: __enter__ blocks until the lock is free.
Acquire(t) ==
    /\ UNCHANGED notLock
    /\ pc[t] = "acquire"
    /\ generate_lock = 0
    /\ generate_lock' = t
    /\ pc' = [pc EXCEPT ![t] = "parse"]
    /\ UNCHANGED <<arg, mol, xyz, trace, result, calls>>

Parse(t) ==
    /\ UNCHANGED notLock
    /\ pc[t] = "parse"
    /\ mol' = [mol EXCEPT ![t] = MolFromSmiles(arg[t])]
    /\ trace' = [trace EXCEPT ![t] = Log(t, "MolFromSmiles")]
    /\ pc' = [pc EXCEPT ![t] = "addhs"]
    /\ UNCHANGED <<generate_lock, arg, xyz, result, calls>>

\* Variant of Raise: acquire()/release() without try/finally, so an
\* exception leaves the lock held.
RaiseLeak(t) ==
    /\ pc' = [pc EXCEPT ![t] = "idle"]
    /\ result' = [result EXCEPT ![t] = [raised |-> TRUE]]
    /\ mol' = [mol EXCEPT ![t] = None]
    /\ UNCHANGED <<generate_lock, arg, xyz, calls>>

\* An exception leaves the with block: __exit__ releases the lock and the
\* exception propagates to the caller; the locals are gone.
Raise(t) ==
    /\ generate_lock' = 0
    /\ pc' = [pc EXCEPT ![t] = "idle"]
    /\ result' = [result EXCEPT ![t] = [raised |-> TRUE]]
    /\ mol' = [mol EXCEPT ![t] = None]
    /\ UNCHANGED <<arg, xyz, calls>>

\* Variant of AddHsStep: the molecule Chem.AddHs returns is dropped.
AddHsStepDiscard(t) ==
    /\ UNCHANGED notLock
    /\ pc[t] = "addhs"
    /\ trace' = [trace EXCEPT ![t] = Log(t, "AddHs")]
    /\ IF mol[t] = None
       THEN Raise(t)
       ELSE /\ pc' = [pc EXCEPT ![t] = "embed"]
            /\ UNCHANGED <<generate_lock, arg, mol, xyz, result, calls>>

\* mol = Chem.AddHs(mol)
AddHsStep(t) ==
    /\ UNCHANGED notLock
    /\ pc[t] = "addhs"
    /\ trace' = [trace EXCEPT ![t] = Log(t, "AddHs")]
    /\ IF mol[t] = None
       THEN Raise(t)
       ELSE /\ mol' = [mol EXCEPT ![t] = AddHs(mol[t])]
            /\ pc' = [pc EXCEPT ![t] = "embed"]
            /\ UNCHANGED <<generate_lock, arg, xyz, result, calls>>

Embed(t) ==
    /\ UNCHANGED notLock
    /\ pc[t] = "embed"
    /\ mol' = [mol EXCEPT ![t] = EmbedMolecule(mol[t], 1)]
    /\ trace' = [trace EXCEPT ![t] = Log(t, "EmbedMolecule")]
    /\ pc' = [pc EXCEPT ![t] = "optimize"]
    /\ UNCHANGED <<generate_lock, arg, xyz, result, calls>>

Optimize(t) ==
    /\ UNCHANGED notLock
    /\ pc[t] = "optimize"
    /\ trace' = [trace EXCEPT ![t] = Log(t, "MMFFOptimizeMolecule")]
    /\ IF mol[t].conf = <<>>
       THEN Raise(t)
       ELSE /\ mol' = [mol EXCEPT ![t] = MMFFOptimizeMolecule(mol[t])]
            /\ pc' = [pc EXCEPT ![t] = "serialize"]
            /\ UNCHANGED <<generate_lock, arg, xyz, result, calls>>

Serialize(t) ==
    /\ UNCHANGED notLock
    /\ pc[t] = "serialize"
    /\ xyz' = [xyz EXCEPT ![t] = MolToXYZBlock(mol[t])]
    /\ trace' = [trace EXCEPT ![t] = Log(t, "MolToXYZBlock")]
    /\ pc' = [pc EXCEPT ![t] = "return"]
    /\ UNCHANGED <<generate_lock, arg, mol, result, calls>>

\* return xyz inside the with block: __exit__ releases the lock, then the
\* value reaches the caller; the locals are gone.
Return(t) ==
    /\ UNCHANGED notLock
    /\ pc[t] = "return"
    /\ generate_lock' = 0
    /\ result' = [result EXCEPT ![t] = [value |-> xyz[t]]]
    /\ pc' = [pc EXCEPT ![t] = "idle"]
    /\ mol' = [mol EXCEPT ![t] = None]
    /\ xyz' = [xyz EXCEPT ![t] = None]
    /\ UNCHANGED <<arg, trace, calls>>

InitLockVars ==
    /\ generate_lock = 0
    /\ pc = [t \in Threads |-> "idle"]
    /\ arg = [t \in Threads |-> None]
    /\ mol = [t \in Threads |-> None]
    /\ xyz = [t \in Threads |-> None]
    /\ trace = [t \in Threads |-> <<>>]
    /\ result = [t \in Threads |-> None]
    /\ calls = [t \in Threads |-> 0]

InitNoTables ==
    /\ BONDS_2 = <<>>
    /\ BONDS_3 = <<>>
    /\ MARGINS_EDM = <<>>

InitNoLoop ==
    /\ type_1 = ""
    /\ type_2 = ""
    /\ distance = 0
    /\ thr_bond2 = <<>>
    /\ thr_bond3 = <<>>
    /\ bond_type = ""

InitNoUnsat ==
    /\ upc = "unused"
    /\ uxyz = <<>>
    /\ umol = None
    /\ bonds = <<>>
    /\ positions = <<>>
    /\ k = 0
    /\ setCount = <<>>
    /\ addHsOut = None
    /\ returned = None

InitLock == InitLockVars /\ InitNoTables /\ InitNoLoop /\ InitNoUnsat

(***************************************************************************)
(* xyz_to_mol and xyz_to_smiles                                            *)
(***************************************************************************)
XyzInputs == {"xyz-water", "xyz-ethene"}

\* Chem.MolFromXYZBlock: a new molecule with atoms and one conformer, no bonds.
MolFromXYZBlock(x) == [obj |-> 1, from |-> x, ops |-> <<>>, hs |-> FALSE]

\* rdDetermineBonds.DetermineConnectivity works on the molecule in place.
DetermineConnectivity(m) == [m EXCEPT !.ops = Append(@, "DetermineConnectivity")]

\* rdDetermineBonds.DetermineBondOrders works on the molecule in place.
DetermineBondOrders(m) == [m EXCEPT !.ops = Append(@, "DetermineBondOrders")]

MolToSmiles(m) == [smilesOf |-> m]

\* Variant of xyz_to_mol: bond orders are not inferred.
xyz_to_mol_skip_orders(x) ==
    DetermineConnectivity(MolFromXYZBlock(x))

xyz_to_mol(x) ==
    DetermineBondOrders(DetermineConnectivity(MolFromXYZBlock(x)))

\* A call of xyz_to_smiles starts.
XyzCall(t, x) ==
    /\ UNCHANGED notLock
    /\ pc[t] = "idle"
    /\ calls[t] < MaxCalls
    /\ calls' = [calls EXCEPT ![t] = @ + 1]
    /\ pc' = [pc EXCEPT ![t] = "xyz_to_mol"]
    /\ arg' = [arg EXCEPT ![t] = x]
    /\ mol' = [mol EXCEPT ![t] = None]
    /\ xyz' = [xyz EXCEPT ![t] = None]
    /\ trace' = [trace EXCEPT ![t] = <<>>]
    /\ result' = [result EXCEPT ![t] = None]
    /\ UNCHANGED generate_lock

\* mol = xyz_to_mol(xyz)
XyzToMol(t) ==
    /\ UNCHANGED notLock
    /\ pc[t] = "xyz_to_mol"
    /\ mol' = [mol EXCEPT ![t] = xyz_to_mol(arg[t])]
    /\ pc' = [pc EXCEPT ![t] = "to_smiles"]
    /\ UNCHANGED <<generate_lock, arg, xyz, trace, result, calls>>

\* return Chem.MolToSmiles(mol)
XyzToSmilesReturn(t) ==
    /\ UNCHANGED notLock
    /\ pc[t] = "to_smiles"
    /\ result' = [result EXCEPT ![t] = [smiles |-> MolToSmiles(mol[t])]]
    /\ pc' = [pc EXCEPT ![t] = "idle"]
    /\ mol' = [mol EXCEPT ![t] = None]
    /\ UNCHANGED <<generate_lock, arg, xyz, trace, calls>>

\* One step of the call thread t is making.
StepSmilesToXyz(t) ==
    \/ Acquire(t)
    \/ Parse(t)
    \/ AddHsStep(t)
    \/ Embed(t)
    \/ Optimize(t)
    \/ Serialize(t)
    \/ Return(t)

NextLock ==
    \/ \E t \in Threads, s \in SmilesInputs : Call(t, s)
    \/ \E t \in Threads : Acquire(t)
    \/ \E t \in Threads : Parse(t)
    \/ \E t \in Threads : AddHsStep(t)
    \/ \E t \in Threads : Embed(t)
    \/ \E t \in Threads : Optimize(t)
    \/ \E t \in Threads : Serialize(t)
    \/ \E t \in Threads : Return(t)

SpecLock == InitLock /\ [][NextLock]_vars

\* Every thread that can take a step of its call eventually takes one: the
\* interpreter schedules every runnable thread and every toolkit call returns.
FairLock == SpecLock /\ \A t \in Threads : WF_vars(StepSmilesToXyz(t))

NextXyz ==
    \/ \E t \in Threads, s \in SmilesInputs : Call(t, s)
    \/ \E t \in Threads : Acquire(t)
    \/ \E t \in Threads : Parse(t)
    \/ \E t \in Threads : AddHsStep(t)
    \/ \E t \in Threads : Embed(t)
    \/ \E t \in Threads : Optimize(t)
    \/ \E t \in Threads : Serialize(t)
    \/ \E t \in Threads : Return(t)
    \/ \E t \in Threads, x \in XyzInputs : XyzCall(t, x)
    \/ \E t \in Threads : XyzToMol(t)
    \/ \E t \in Threads : XyzToSmilesReturn(t)

SpecXyz == InitLock /\ [][NextXyz]_vars

(***************************************************************************)
(* unsaturated_xyz_to_mol                                                  *)
(***************************************************************************)
Elements == {"C", "S"}

\* Bond lengths (pm) the reference tables may hold.
ThrVals == {120, 160}

\* A table maps some elements to a map from some elements to a length, as
\* the nested dictionaries const.BONDS_2 and const.BONDS_3 do.
InnerTables == UNION {[K -> ThrVals] : K \in SUBSET Elements}
NestedTables == UNION {[K -> InnerTables] : K \in SUBSET Elements}

MarginCases == {<<10, 5, 2>>, <<10, 25, 45>>}

\* Atom positions, in whole angstroms.
Points == {<<0, 0, 0>>, <<1, 0, 0>>, <<1, 1, 1>>}

\* seq[i] with Python's indices, which start at 0.
At(seq, i) == seq[i + 1]

RECURSIVE ISqrt(_)
\* The integer part of the square root of n.
ISqrt(n) ==
    IF n < 2 THEN n
    ELSE LET s == 2 * ISqrt(n \div 4)
         IN  IF (s + 1) * (s + 1) > n THEN s ELSE s + 1

SqNorm(v) == v[1] * v[1] + v[2] * v[2] + v[3] * v[3]

\* Variant of DistancePm: the distance is left in angstroms.
DistanceAngstrom(p, q) ==
    ISqrt(SqNorm(<<p[1] - q[1], p[2] - q[2], p[3] - q[3]>>))

\* np.linalg.norm(p - q) * 100, in whole picometers: the integer part of
\* 100 * sqrt(n) is the integer part of sqrt(100 * 100 * n).
DistancePm(p, q) ==
    ISqrt(SqNorm(<<p[1] - q[1], p[2] - q[2], p[3] - q[3]>>) * 100 * 100)

Distances == {DistancePm(p, q) : p, q \in Points}

Has(table, a, b) == a \in DOMAIN table /\ b \in DOMAIN table[a]

\* Variant of InferBondOrder: the triple-bond test is not nested in the
\* double-bond test.
InferBondOrderFlat(t1, t2, d) ==
    LET has2 == Has(BONDS_2, t1, t2)
        has3 == Has(BONDS_3, t1, t2)
        thr2 == BONDS_2[t1][t2] + At(MARGINS_EDM, 1)
        thr3 == BONDS_3[t1][t2] + At(MARGINS_EDM, 2)
    IN  [bond_type |-> IF has3 /\ d < thr3 THEN "TRIPLE"
                       ELSE IF has2 /\ d < thr2 THEN "DOUBLE"
                       ELSE "SINGLE",
         thr_bond2 |-> IF has2 THEN <<thr2>> ELSE <<>>,
         thr_bond3 |-> IF has3 THEN <<thr3>> ELSE <<>>]

\* Variant of InferBondOrder: the comparison with the triple threshold is
\* the wrong way round.
InferBondOrderFlipped(t1, t2, d) ==
    LET has2 == Has(BONDS_2, t1, t2)
        has3 == Has(BONDS_3, t1, t2)
        thr2 == BONDS_2[t1][t2] + At(MARGINS_EDM, 1)
        thr3 == BONDS_3[t1][t2] + At(MARGINS_EDM, 2)
    IN  IF ~has2 THEN [bond_type |-> "SINGLE", thr_bond2 |-> <<>>, thr_bond3 |-> <<>>]
        ELSE IF ~(d < thr2) THEN [bond_type |-> "SINGLE", thr_bond2 |-> <<thr2>>, thr_bond3 |-> <<>>]
        ELSE IF ~has3 THEN [bond_type |-> "DOUBLE", thr_bond2 |-> <<thr2>>, thr_bond3 |-> <<>>]
        ELSE IF d > thr3 THEN [bond_type |-> "TRIPLE", thr_bond2 |-> <<thr2>>, thr_bond3 |-> <<thr3>>]
        ELSE [bond_type |-> "DOUBLE", thr_bond2 |-> <<thr2>>, thr_bond3 |-> <<thr3>>]

\* Variant of InferBondOrder: a pair missing from the double table is looked
\* up the other way round.
InferBondOrderSwapped(t1, t2, d) ==
    LET a == IF Has(BONDS_2, t1, t2) THEN t1 ELSE t2
        b == IF Has(BONDS_2, t1, t2) THEN t2 ELSE t1
        has2 == Has(BONDS_2, a, b)
        has3 == Has(BONDS_3, a, b)
        thr2 == BONDS_2[a][b] + At(MARGINS_EDM, 1)
        thr3 == BONDS_3[a][b] + At(MARGINS_EDM, 2)
    IN  IF ~has2 THEN [bond_type |-> "SINGLE", thr_bond2 |-> <<>>, thr_bond3 |-> <<>>]
        ELSE IF ~(d < thr2) THEN [bond_type |-> "SINGLE", thr_bond2 |-> <<thr2>>, thr_bond3 |-> <<>>]
        ELSE IF ~has3 THEN [bond_type |-> "DOUBLE", thr_bond2 |-> <<thr2>>, thr_bond3 |-> <<>>]
        ELSE IF d < thr3 THEN [bond_type |-> "TRIPLE", thr_bond2 |-> <<thr2>>, thr_bond3 |-> <<thr3>>]
        ELSE [bond_type |-> "DOUBLE", thr_bond2 |-> <<thr2>>, thr_bond3 |-> <<thr3>>]

\* Lines 88-98: the values of bond_type, thr_bond2 and thr_bond3 after the
\* classification of a bond between elements t1 and t2 at distance d.
InferBondOrder(t1, t2, d) ==
    LET has2 == Has(BONDS_2, t1, t2)
        has3 == Has(BONDS_3, t1, t2)
        thr2 == BONDS_2[t1][t2] + At(MARGINS_EDM, 1)
        thr3 == BONDS_3[t1][t2] + At(MARGINS_EDM, 2)
    IN  IF ~has2 THEN [bond_type |-> "SINGLE", thr_bond2 |-> <<>>, thr_bond3 |-> <<>>]
        ELSE IF ~(d < thr2) THEN [bond_type |-> "SINGLE", thr_bond2 |-> <<thr2>>, thr_bond3 |-> <<>>]
        ELSE IF ~has3 THEN [bond_type |-> "DOUBLE", thr_bond2 |-> <<thr2>>, thr_bond3 |-> <<>>]
        ELSE IF d < thr3 THEN [bond_type |-> "TRIPLE", thr_bond2 |-> <<thr2>>, thr_bond3 |-> <<thr3>>]
        ELSE [bond_type |-> "DOUBLE", thr_bond2 |-> <<thr2>>, thr_bond3 |-> <<thr3>>]

\* The classification of one bond, given its elements and its distance.
Classify ==
    /\ upc = "classify"
    /\ LET r == InferBondOrder(type_1, type_2, distance)
       IN  /\ bond_type' = r.bond_type
           /\ thr_bond2' = r.thr_bond2
           /\ thr_bond3' = r.thr_bond3
    /\ upc' = "classified"
    /\ UNCHANGED <<lockVars, tableVars, type_1, type_2, distance>>
    /\ UNCHANGED <<uxyz, umol, bonds, positions, k, setCount, addHsOut, returned>>

InitOrder ==
    /\ InitLockVars
    /\ BONDS_2 \in NestedTables
    /\ BONDS_3 \in NestedTables
    /\ MARGINS_EDM \in MarginCases
    /\ type_1 \in Elements
    /\ type_2 \in Elements
    /\ distance \in Distances
    /\ thr_bond2 = <<>>
    /\ thr_bond3 = <<>>
    /\ bond_type = ""
    /\ upc = "classify"
    /\ uxyz = <<>>
    /\ umol = None
    /\ bonds = <<>>
    /\ positions = <<>>
    /\ k = 0
    /\ setCount = <<>>
    /\ addHsOut = None
    /\ returned = None

NextOrder == Classify

SpecOrder == InitOrder /\ [][NextOrder]_vars

\* Tables and margins unsaturated_xyz_to_mol is run with: one where every
\* triple threshold is below the double threshold of its pair, one where it
\* is not and where a pair has a triple entry only, and empty tables.
UnsatConsts ==
    { [b2 |-> [x \in {"C"} |-> [y \in {"C", "S"} |-> 160]],
       b3 |-> [x \in {"C"} |-> [y \in {"C"} |-> 120]],
       m  |-> <<10, 5, 2>>],
      [b2 |-> [x \in {"C", "S"} |-> [y \in {x} |-> IF x = "C" THEN 120 ELSE 160]],
       b3 |-> [x \in {"C", "S"} |-> IF x = "C" THEN [y \in {"C", "S"} |-> IF y = "C" THEN 160 ELSE 120]
                                      ELSE [y \in {"S"} |-> 120]],
       m  |-> <<10, 5, 2>>],
      [b2 |-> <<>>, b3 |-> <<>>, m |-> <<10, 25, 45>>] }

\* The XYZ inputs: 2 to MaxAtoms atoms, each an element at a position.
Atoms == [symbol : Elements, pos : Points]
XyzBlocks == UNION {[1..n -> Atoms] : n \in 2..MaxAtoms}

\* Pairs of atom indices, begin before end.
AtomPairs(n) == {pr \in (0..(n - 1)) \X (0..(n - 1)) : pr[1] < pr[2]}

Before(p, q) == p[1] < q[1] \/ (p[1] = q[1] /\ p[2] < q[2])

RECURSIVE SortedPairs(_)
SortedPairs(S) ==
    IF S = {} THEN <<>>
    ELSE LET first == CHOOSE p \in S : \A q \in S \ {p} : Before(p, q)
         IN  <<first>> \o SortedPairs(S \ {first})

\* What connectivity inference may find on n atoms: up to MaxBonds bonds.
BondLists(n) ==
    {SortedPairs(S) : S \in {T \in SUBSET AtomPairs(n) : Cardinality(T) <= MaxBonds}}

\* mol.UpdatePropertyCache() works on the molecule in place.
UpdatePropertyCache(m) == [m EXCEPT !.ops = Append(@, "UpdatePropertyCache")]

\* Line 69: mol = Chem.MolFromXYZBlock(xyz)
ParseXyz ==
    /\ upc = "start"
    /\ umol' = MolFromXYZBlock(uxyz)
    /\ upc' = "connectivity"
    /\ UNCHANGED <<lockVars, tableVars, loopVars>>
    /\ UNCHANGED <<uxyz, bonds, positions, k, setCount, addHsOut, returned>>

\* Lines 70-72: connectivity inference gives the molecule its bonds, all
\* single; positions are those of conformer 0, the geometry of the XYZ block.
Connectivity ==
    /\ upc = "connectivity"
    /\ \E found \in BondLists(Len(uxyz)) :
          /\ bonds' = [i \in 1..Len(found) |->
                          [begin |-> found[i][1], end |-> found[i][2], type |-> "SINGLE"]]
          /\ setCount' = [i \in 1..Len(found) |-> 0]
    /\ umol' = DetermineConnectivity(umol)
    /\ positions' = [i \in 1..Len(uxyz) |-> uxyz[i].pos]
    /\ k' = 0
    /\ upc' = "loop"
    /\ UNCHANGED <<lockVars, tableVars, loopVars>>
    /\ UNCHANGED <<uxyz, addHsOut, returned>>

\* Variant of LoopBond: SetBondType is called only for a bond found to be
\* double or triple.
LoopBondSkipSingle ==
    /\ upc = "loop"
    /\ k < Len(bonds)
    /\ LET bond == bonds[k + 1]
           d == DistancePm(At(positions, bond.begin), At(positions, bond.end))
           t1 == At(uxyz, bond.begin).symbol
           t2 == At(uxyz, bond.end).symbol
           r == InferBondOrder(t1, t2, d)
       IN  /\ distance' = d
           /\ type_1' = t1
           /\ type_2' = t2
           /\ bond_type' = r.bond_type
           /\ thr_bond2' = IF r.thr_bond2 = <<>> THEN thr_bond2 ELSE r.thr_bond2
           /\ thr_bond3' = IF r.thr_bond3 = <<>> THEN thr_bond3 ELSE r.thr_bond3
           /\ IF r.bond_type = "SINGLE"
              THEN UNCHANGED <<bonds, setCount>>
              ELSE /\ bonds' = [bonds EXCEPT ![k + 1].type = r.bond_type]
                   /\ setCount' = [setCount EXCEPT ![k + 1] = @ + 1]
    /\ k' = k + 1
    /\ UNCHANGED <<lockVars, tableVars>>
    /\ UNCHANGED <<upc, uxyz, umol, positions, addHsOut, returned>>

\* Lines 75-99: one turn of the loop over mol.GetBonds().  thr_bond2 and
\* thr_bond3 keep their value of an earlier turn when this one assigns none.
LoopBond ==
    /\ upc = "loop"
    /\ k < Len(bonds)
    /\ LET bond == bonds[k + 1]
           d == DistancePm(At(positions, bond.begin), At(positions, bond.end))
           t1 == At(uxyz, bond.begin).symbol
           t2 == At(uxyz, bond.end).symbol
           r == InferBondOrder(t1, t2, d)
       IN  /\ distance' = d
           /\ type_1' = t1
           /\ type_2' = t2
           /\ bond_type' = r.bond_type
           /\ thr_bond2' = IF r.thr_bond2 = <<>> THEN thr_bond2 ELSE r.thr_bond2
           /\ thr_bond3' = IF r.thr_bond3 = <<>> THEN thr_bond3 ELSE r.thr_bond3
           /\ bonds' = [bonds EXCEPT ![k + 1].type = r.bond_type]
           /\ setCount' = [setCount EXCEPT ![k + 1] = @ + 1]
    /\ k' = k + 1
    /\ UNCHANGED <<lockVars, tableVars>>
    /\ UNCHANGED <<upc, uxyz, umol, positions, addHsOut, returned>>

\* Lines 102-103: mol.UpdatePropertyCache(), then Chem.AddHs(mol, ...), whose
\* result, a new molecule, is bound to no name.
AddExplicitHs ==
    /\ upc = "loop"
    /\ k = Len(bonds)
    /\ umol' = UpdatePropertyCache(umol)
    /\ addHsOut' = AddHs(umol')
    /\ upc' = "return"
    /\ UNCHANGED <<lockVars, tableVars, loopVars>>
    /\ UNCHANGED <<uxyz, bonds, positions, k, setCount, returned>>

\* Line 107: return mol
ReturnMol ==
    /\ upc = "return"
    /\ returned' = umol
    /\ upc' = "done"
    /\ UNCHANGED <<lockVars, tableVars, loopVars>>
    /\ UNCHANGED <<uxyz, umol, bonds, positions, k, setCount, addHsOut>>

InitUnsat ==
    /\ InitLockVars
    /\ \E c \in UnsatConsts :
          /\ BONDS_2 = c.b2
          /\ BONDS_3 = c.b3
          /\ MARGINS_EDM = c.m
    /\ InitNoLoop
    /\ upc = "start"
    /\ uxyz \in XyzBlocks
    /\ umol = None
    /\ bonds = <<>>
    /\ positions = <<>>
    /\ k = 0
    /\ setCount = <<>>
    /\ addHsOut = None
    /\ returned = None

NextUnsat ==
    \/ ParseXyz
    \/ Connectivity
    \/ LoopBond
    \/ AddExplicitHs
    \/ ReturnMol

SpecUnsat == InitUnsat /\ [][NextUnsat]_vars

(***************************************************************************)
(* Properties of smiles_to_xyz and xyz_to_smiles                           *)
(***************************************************************************)
\* Positions of a smiles_to_xyz call from the start of SMILES parsing to the
\* end of the XYZ serialization.
Working == {"parse", "addhs", "embed", "optimize", "serialize"}
InBlock == Working \cup {"return"}

OpsOf(t) == [i \in 1..Len(trace[t]) |-> trace[t][i].op]

\* C3: at most one thread at a time is between the start of SMILES parsing
\* and the end of XYZ serialization; no two threads are inside EmbedMolecule
\* at once.
C3_MutualExclusion ==
    \A t1, t2 \in Threads :
        (t1 # t2 /\ pc[t1] \in Working) => pc[t2] \notin InBlock

\* A thread is embedding while another one waits for the lock.
C3_Witness ==
    \E t1, t2 \in Threads :
        /\ pc[t1] = "embed"
        /\ pc[t2] = "acquire"
        /\ generate_lock = t1

\* C5: a call of smiles_to_xyz that returns has parsed, added hydrogens,
\* embedded with seed 1, optimized and serialized, each once, in this order,
\* holding the lock at every step, and returns the serialization of the
\* optimized molecule.
C5_StepsInOrder ==
    \A t \in Threads :
        "value" \in DOMAIN result[t] =>
            /\ OpsOf(t) = <<"MolFromSmiles", "AddHs", "EmbedMolecule",
                            "MMFFOptimizeMolecule", "MolToXYZBlock">>
            /\ \A i \in 1..Len(trace[t]) : trace[t][i].lock = t
            /\ result[t].value =
                 [xyzOf |-> [obj |-> 2, from |-> arg[t], hs |-> TRUE,
                             conf |-> <<[seed |-> 1, hs |-> TRUE]>>,
                             optimized |-> TRUE]]

\* A call has returned a geometry.
C5_Witness ==
    \E t \in Threads : "value" \in DOMAIN result[t] /\ arg[t] = "CCO"

\* C8: the lock is free whenever no call is inside the with block, also after
\* a call that raised, and every call that started finishes.
C8_LockReleased ==
    /\ [](generate_lock # 0 => pc[generate_lock] \in InBlock)
    /\ []((\A t \in Threads : pc[t] \notin InBlock) => generate_lock = 0)
    /\ \A t \in Threads : (pc[t] = "acquire") ~> (pc[t] = "idle")

\* One call has raised and, after it, another thread is inside the block.
C8_Witness ==
    \E t1, t2 \in Threads :
        /\ "raised" \in DOMAIN result[t1]
        /\ pc[t1] = "idle"
        /\ pc[t2] = "embed"
        /\ calls[t2] > calls[t1]

\* C6: xyz_to_smiles returns the canonical SMILES of the molecule xyz_to_mol
\* returns, which is the parsed XYZ with connectivity and then bond orders
\* inferred in place; no step of it takes the lock.
C6_XyzToSmiles ==
    /\ \A t \in Threads :
          /\ pc[t] = "to_smiles" =>
                mol[t] = [obj |-> 1, from |-> arg[t], hs |-> FALSE,
                          ops |-> <<"DetermineConnectivity", "DetermineBondOrders">>]
          /\ "smiles" \in DOMAIN result[t] =>
                result[t].smiles =
                    [smilesOf |-> [obj |-> 1, from |-> arg[t], hs |-> FALSE,
                                   ops |-> <<"DetermineConnectivity", "DetermineBondOrders">>]]
    /\ generate_lock # 0 => pc[generate_lock] \in InBlock

\* xyz_to_smiles has returned in a thread that started it after another
\* thread's call, and that other thread still holds the lock.
C6_Witness ==
    \E t1, t2 \in Threads :
        /\ "smiles" \in DOMAIN result[t1]
        /\ calls[t1] = 1
        /\ calls[t2] = 1
        /\ generate_lock = t2
        /\ pc[t2] = "embed"

(***************************************************************************)
(* Properties of the bond-order classification                             *)
(***************************************************************************)
\* The thresholds of the pair being classified, straight from the tables:
\* MARGINS_EDM[2] is margins[1] and MARGINS_EDM[3] is margins[2] of the source.
InDouble == type_1 \in DOMAIN BONDS_2 /\ type_2 \in DOMAIN BONDS_2[type_1]
InTriple == type_1 \in DOMAIN BONDS_3 /\ type_2 \in DOMAIN BONDS_3[type_1]
DoubleThr == BONDS_2[type_1][type_2] + MARGINS_EDM[2]
TripleThr == BONDS_3[type_1][type_2] + MARGINS_EDM[3]

\* C1 as stated: TRIPLE if the distance is below the triple threshold, else
\* DOUBLE if it is below the double threshold, else SINGLE, whatever the
\* tables hold.
C1_FlatClassification ==
    upc = "classified" =>
        bond_type = IF InTriple /\ distance < TripleThr THEN "TRIPLE"
                    ELSE IF InDouble /\ distance < DoubleThr THEN "DOUBLE"
                    ELSE "SINGLE"

\* C1 amended: TRIPLE if the pair is in both tables and the distance is below
\* both the double and the triple threshold; otherwise DOUBLE if the pair is
\* in the double table and the distance is below the double threshold;
\* otherwise SINGLE.
C1_NestedClassification ==
    upc = "classified" =>
        bond_type = IF /\ InDouble
                       /\ InTriple
                       /\ distance < DoubleThr
                       /\ distance < TripleThr
                    THEN "TRIPLE"
                    ELSE IF InDouble /\ distance < DoubleThr THEN "DOUBLE"
                    ELSE "SINGLE"

\* A bond at or above its double threshold and below its triple threshold
\* has been classified.
C1_Witness ==
    /\ upc = "classified"
    /\ InDouble
    /\ InTriple
    /\ DoubleThr <= distance
    /\ distance < TripleThr
    /\ bond_type = "SINGLE"

\* C2: a bond whose element pair is in neither table is SINGLE at every
\* distance.
C2_NoEntryIsSingle ==
    (upc = "classified" /\ ~InDouble /\ ~InTriple) => bond_type = "SINGLE"

\* A pair without entry has been classified at the shortest distance while
\* the reversed pair has entries in both tables.
C2_Witness ==
    /\ upc = "classified"
    /\ ~InDouble
    /\ ~InTriple
    /\ distance = 0
    /\ type_2 \in DOMAIN BONDS_2 /\ type_1 \in DOMAIN BONDS_2[type_2]
    /\ type_2 \in DOMAIN BONDS_3 /\ type_1 \in DOMAIN BONDS_3[type_2]
    /\ bond_type = "SINGLE"

Rank(b) == CASE b = "SINGLE" -> 1 [] b = "DOUBLE" -> 2 [] b = "TRIPLE" -> 3

\* C9: for a fixed pair, tables and margins the bond order does not increase
\* with the distance.
C9_Monotone ==
    upc = "classified" =>
        \A d \in Distances :
            LET other == Rank(InferBondOrder(type_1, type_2, d).bond_type)
            IN  /\ distance <= d => Rank(bond_type) >= other
                /\ d <= distance => other >= Rank(bond_type)

\* A pair whose triple threshold exceeds its double threshold has been
\* classified TRIPLE, and is SINGLE at a larger distance below the triple
\* threshold.
C9_Witness ==
    /\ upc = "classified"
    /\ InDouble
    /\ InTriple
    /\ TripleThr > DoubleThr
    /\ bond_type = "TRIPLE"
    /\ \E d \in Distances :
          /\ d > distance
          /\ d < TripleThr
          /\ InferBondOrder(type_1, type_2, d).bond_type = "SINGLE"

(***************************************************************************)
(* Properties of unsaturated_xyz_to_mol                                    *)
(***************************************************************************)
\* C4 as stated: the molecule returned is the one the explicit-hydrogen
\* addition produced.
C4_ReturnsAddHsOutput ==
    upc = "done" => returned = addHsOut

\* The sum of the squared coordinate differences of the two atoms of the
\* bond visited last, from the XYZ block.
LastBond == bonds[k]
LastSq ==
    LET p == uxyz[LastBond.begin + 1].pos
        q == uxyz[LastBond.end + 1].pos
    IN  (p[1] - q[1]) * (p[1] - q[1]) + (p[2] - q[2]) * (p[2] - q[2])
          + (p[3] - q[3]) * (p[3] - q[3])

\* C7: the distance compared is 100 times the Euclidean distance between the
\* positions of the bond's begin and end atom, and the thresholds are the
\* table values plus margins[1] (double) and margins[2] (triple).
C7_DistanceAndThresholds ==
    (upc = "loop" /\ k >= 1) =>
        /\ type_1 = uxyz[LastBond.begin + 1].symbol
        /\ type_2 = uxyz[LastBond.end + 1].symbol
        /\ distance * distance <= 100 * 100 * LastSq
        /\ 100 * 100 * LastSq < (distance + 1) * (distance + 1)
        /\ InDouble => thr_bond2 = <<DoubleThr>>
        /\ (InDouble /\ distance < DoubleThr /\ InTriple) => thr_bond3 = <<TripleThr>>
        /\ bond_type = "DOUBLE" => distance < thr_bond2[1]
        /\ bond_type = "TRIPLE" => distance < thr_bond2[1] /\ distance < thr_bond3[1]

\* A bond between atoms (1,0,0) and (1,1,1), 141 pm apart, has been compared
\* with the double threshold 160 + 5 and the triple threshold 120 + 2.
C7_Witness ==
    /\ upc = "loop"
    /\ k >= 1
    /\ LastSq = 2
    /\ distance = 141
    /\ thr_bond2 = <<165>>
    /\ thr_bond3 = <<122>>
    /\ bond_type = "DOUBLE"

====
